---- MODULE Spec2Model ----
(***************************************************************************)
(* A model of the time-series SQL validator (package tsv): Validate,       *)
(* stripComments, lex and the clause scanners.                             *)
(*                                                                         *)
(* A Go string is modelled as a sequence of one-character strings, so that *)
(* every byte-level step of the lexer is computed and not assumed.  Go     *)
(* indices are 0-based and the model's are 1-based: a Go index g is the    *)
(* position g+1 here, the Go result -1 ("not found") is 0, and len(toks)   *)
(* (one past the last token) is Len(toks)+1.                               *)
(***************************************************************************)
EXTENDS Naturals, Integers, Sequences, FiniteSets, TLC

VARIABLES
    parts,      \* the pieces the input text is assembled from
    sql,        \* Validate's argument sql
    opts,       \* Validate's argument opts: Nil or an Options value
    pc,         \* position inside Validate
    timeCols,   \* Validate's local timeCols
    src,        \* Validate's local src
    toks,       \* Validate's local toks
    selects,    \* Validate's local selects
    k,          \* index of the next element of selects the loop visits
    issues,     \* Validate's local issues
    ok          \* the boolean Validate returns

vars == <<parts, sql, opts, pc, timeCols, src, toks, selects, k, issues, ok>>

(***************************************************************************)
(* Characters.                                                             *)
(***************************************************************************)
LowerLetters == <<"a","b","c","d","e","f","g","h","i","j","k","l","m","n","o","p","q","r","s","t","u","v","w","x","y","z">>
UpperLetters == <<"A","B","C","D","E","F","G","H","I","J","K","L","M","N","O","P","Q","R","S","T","U","V","W","X","Y","Z">>
Digits == {"0","1","2","3","4","5","6","7","8","9"}

Range(f) == {f[i] : i \in DOMAIN f}

\* unicode.IsLetter, unicode.IsDigit, unicode.IsSpace on the ASCII bytes
IsLetter(c) == c \in Range(LowerLetters) \cup Range(UpperLetters)
IsDigit(c) == c \in Digits
IsSpace(c) == c \in {" ", "\t", "\n", "\r", "\f"}

\* strings.ToLower on one ASCII byte
ToLowerCh(c) ==
    IF c \in Range(UpperLetters)
    THEN LowerLetters[CHOOSE i \in 1..26 : UpperLetters[i] = c]
    ELSE c

\* strings.ToLower
ToLower(s) == [i \in 1..Len(s) |-> ToLowerCh(s[i])]

\* s[i:j] of Go with 1-based positions: the characters at positions i..j-1
Slice(s, i, j) == SubSeq(s, i, j - 1)

\* strings.Contains
Contains(s, sub) ==
    \E i \in 1..(Len(s) - Len(sub) + 1) : SubSeq(s, i, i + Len(sub) - 1) = sub

\* strings.LastIndex for a one-character needle, 1-based; 0 when absent
LastIndex(s, c) ==
    IF \E i \in 1..Len(s) : s[i] = c
    THEN CHOOSE i \in 1..Len(s) : s[i] = c /\ \A j \in (i+1)..Len(s) : s[j] # c
    ELSE 0

(***************************************************************************)
(* Token kinds and keywords.                                               *)
(***************************************************************************)
tkIdent == 0
tkKeyword == 1
tkString == 2
tkNumber == 3
tkSymbol == 4

kwSelect == <<"s","e","l","e","c","t">>
kwFrom == <<"f","r","o","m">>
kwWhere == <<"w","h","e","r","e">>
kwGroup == <<"g","r","o","u","p">>
kwOrder == <<"o","r","d","e","r">>
kwHaving == <<"h","a","v","i","n","g">>
kwUnion == <<"u","n","i","o","n">>
kwIntersect == <<"i","n","t","e","r","s","e","c","t">>
kwExcept == <<"e","x","c","e","p","t">>
kwBetween == <<"b","e","t","w","e","e","n">>
kwAnd == <<"a","n","d">>
kwOr == <<"o","r">>
kwNot == <<"n","o","t">>

keywords ==
    { kwSelect, kwFrom, kwWhere, kwGroup, <<"b","y">>, kwOrder, kwHaving,
      kwUnion, kwIntersect, kwExcept, <<"j","o","i","n">>, <<"l","e","f","t">>, <<"r","i","g","h","t">>, <<"f","u","l","l">>,
      <<"o","u","t","e","r">>, <<"i","n","n","e","r">>, <<"c","r","o","s","s">>, <<"o","n">>, <<"a","s">>, <<"w","i","t","h">>, <<"l","a","t","e","r","a","l">>,
      kwBetween, kwAnd, kwOr, kwNot, <<"i","n">>, <<"e","x","i","s","t","s">> }

Token(v, kd, d) == [val |-> v, kind |-> kd, depth |-> d]

(***************************************************************************)
(* stripComments                                                           *)
(***************************************************************************)
\* one iteration of the loop of stripComments; st holds the builder b, the
\* position i and the two flags
\* block comments are not recognised
stripStepLineOnly(s, st) ==
    LET i == st.i IN
    IF st.inLine THEN
        IF s[i] = "\n"
        THEN [st EXCEPT !.b = Append(st.b, s[i]), !.i = i + 1, !.inLine = FALSE]
        ELSE [st EXCEPT !.i = i + 1]
    ELSE IF s[i] = "-" /\ i + 1 <= Len(s) /\ s[i+1] = "-"
        THEN [st EXCEPT !.i = i + 2, !.inLine = TRUE]
    ELSE [st EXCEPT !.b = Append(st.b, s[i]), !.i = i + 1]

stripStep(s, st) ==
    LET i == st.i IN
    IF st.inLine THEN
        IF s[i] = "\n"
        THEN [st EXCEPT !.b = Append(st.b, s[i]), !.i = i + 1, !.inLine = FALSE]
        ELSE [st EXCEPT !.i = i + 1]
    ELSE IF st.inBlock THEN
        IF s[i] = "*" /\ i + 1 <= Len(s) /\ s[i+1] = "/"
        THEN [st EXCEPT !.i = i + 2, !.inBlock = FALSE]
        ELSE [st EXCEPT !.i = i + 1]
    ELSE IF s[i] = "-" /\ i + 1 <= Len(s) /\ s[i+1] = "-"
        THEN [st EXCEPT !.i = i + 2, !.inLine = TRUE]
    ELSE IF s[i] = "/" /\ i + 1 <= Len(s) /\ s[i+1] = "*"
        THEN [st EXCEPT !.i = i + 2, !.inBlock = TRUE]
    ELSE [st EXCEPT !.b = Append(st.b, s[i]), !.i = i + 1]

\* the loop of stripComments run for at most n iterations from st; the run is
\* split in halves, which keeps the evaluation shallow, and the state reached
\* after the first half is computed once
RECURSIVE stripLoop(_, _, _)
stripLoop(s, st, n) ==
    IF n = 0 \/ st.i > Len(s) THEN st
    ELSE IF n = 1 THEN stripStep(s, st)
    ELSE CHOOSE r \in {stripLoop(s, half, n - (n \div 2)) :
                          half \in {stripLoop(s, st, n \div 2)}} : TRUE

\* every iteration consumes at least one character: Len(s) iterations suffice
stripComments(s) ==
    stripLoop(s, [b |-> <<>>, i |-> 1, inLine |-> FALSE, inBlock |-> FALSE], Len(s)).b

(***************************************************************************)
(* lex                                                                     *)
(***************************************************************************)
isIdentStart(b) == IsLetter(b) \/ b = "_" \/ b = "$"
isIdentPart(b) == IsLetter(b) \/ IsDigit(b) \/ b = "_" \/ b = "." \/ b = "$"
isNumStart(b) == IsDigit(b)
isNum(b) == IsDigit(b)

\* the closure readString of lex: the position after the quoted text that
\* starts at i (the text itself is Slice(s, i, readString(s, i, quote)))
\* one iteration of its loop at position st.j
readStringStep(s, st, quote) ==
    IF s[st.j] = quote THEN
        IF st.j + 1 <= Len(s) /\ s[st.j + 1] = quote
        THEN [j |-> st.j + 2, done |-> FALSE]
        ELSE [j |-> st.j + 1, done |-> TRUE]
    ELSE [j |-> st.j + 1, done |-> FALSE]

\* at most n iterations of the loop, split in halves to keep the evaluation
\* shallow
RECURSIVE readStringLoop(_, _, _, _)
readStringLoop(s, st, quote, n) ==
    IF n = 0 \/ st.done \/ st.j > Len(s) THEN st
    ELSE IF n = 1 THEN readStringStep(s, st, quote)
    ELSE CHOOSE r \in {readStringLoop(s, half, quote, n - (n \div 2)) :
                          half \in {readStringLoop(s, st, quote, n \div 2)}} : TRUE

readStringFrom(s, j, quote) ==
    readStringLoop(s, [j |-> j, done |-> FALSE], quote, Len(s)).j

\* an unterminated quote is not consumed
readStringClosedOnly(s, i, quote) ==
    LET nx == readStringFrom(s, i + 1, quote)
    IN IF s[nx - 1] = quote /\ nx - 1 > i THEN nx ELSE i

readString(s, i, quote) == readStringFrom(s, i + 1, quote)

\* the end of the run of characters satisfying the number loop's condition
RECURSIVE numEnd(_, _)
numEnd(s, j) ==
    IF j <= Len(s) /\ (isNum(s[j]) \/ s[j] = ".") THEN numEnd(s, j + 1) ELSE j

RECURSIVE identEnd(_, _)
identEnd(s, j) ==
    IF j <= Len(s) /\ isIdentPart(s[j]) THEN identEnd(s, j + 1) ELSE j

isTwoCharOp(r, n) ==
    \/ r = ">" /\ n = "="
    \/ r = "<" /\ (n = "=" \/ n = ">")
    \/ r = "!" /\ n = "="

\* the depth is left as it is, negative or not
unclampedDepth(d) == d

clampDepth(d) == IF d < 0 THEN 0 ELSE d

\* one iteration of the loop of lex; st holds out, the position i and depth
lexStep(s, st) ==
    LET i == st.i
        depth == st.depth
        r == s[i]
    IN
    IF r = "\\" /\ i + 1 <= Len(s) /\ s[i+1] \in {"n", "r", "t"}
        THEN [st EXCEPT !.i = i + 2]
    ELSE IF r = "\\" /\ i + 1 <= Len(s) /\ s[i+1] \in {"\"", "'", "\\"}
        THEN [st EXCEPT !.i = i + 1]
    ELSE IF IsSpace(r)
        THEN [st EXCEPT !.i = i + 1]
    ELSE IF r = "("
        THEN [out |-> Append(st.out, Token(<<"(">>, tkSymbol, depth)),
              i |-> i + 1, depth |-> depth + 1]
    ELSE IF r = ")"
        THEN LET d == clampDepth(depth - 1)
             IN [out |-> Append(st.out, Token(<<")">>, tkSymbol, d)),
                 i |-> i + 1, depth |-> d]
    ELSE IF r = "'" \/ r = "\""
        THEN LET nx == readString(s, i, r)
                 str == Slice(s, i, nx)
             IN IF r = "\""
                THEN [st EXCEPT !.out = Append(st.out, Token(ToLower(str), tkIdent, depth)),
                                !.i = nx]
                ELSE [st EXCEPT !.out = Append(st.out, Token(str, tkString, depth)),
                                !.i = nx]
    ELSE IF isNumStart(r)
        THEN LET j == numEnd(s, i + 1)
             IN [st EXCEPT !.out = Append(st.out, Token(Slice(s, i, j), tkNumber, depth)),
                           !.i = j]
    ELSE IF isIdentStart(r)
        THEN LET j == identEnd(s, i + 1)
                 word == ToLower(Slice(s, i, j))
             IN IF word \in keywords
                THEN [st EXCEPT !.out = Append(st.out, Token(word, tkKeyword, depth)),
                                !.i = j]
                ELSE [st EXCEPT !.out = Append(st.out, Token(word, tkIdent, depth)),
                                !.i = j]
    ELSE IF r \in {">", "<", "!"} /\ i + 1 <= Len(s) /\ isTwoCharOp(r, s[i+1])
        THEN [st EXCEPT !.out = Append(st.out,
                                       Token(ToLower(Slice(s, i, i + 2)), tkSymbol, depth)),
                        !.i = i + 2]
    ELSE [st EXCEPT !.out = Append(st.out, Token(<<ToLowerCh(r)>>, tkSymbol, depth)),
                    !.i = i + 1]

\* the loop of lex run for at most n iterations from st, split in halves
RECURSIVE lexLoop(_, _, _)
lexLoop(s, st, n) ==
    IF n = 0 \/ st.i > Len(s) THEN st
    ELSE IF n = 1 THEN lexStep(s, st)
    ELSE CHOOSE r \in {lexLoop(s, half, n - (n \div 2)) :
                          half \in {lexLoop(s, st, n \div 2)}} : TRUE

\* every iteration consumes at least one character: Len(s) iterations suffice
lex(s) == lexLoop(s, [out |-> <<>>, i |-> 1, depth |-> 0], Len(s)).out

(***************************************************************************)
(* Clause scanners.                                                        *)
(***************************************************************************)
RECURSIVE findNextKeywordAtDepth(_, _, _, _)
findNextKeywordAtDepth(tk, start, depth, word) ==
    IF start > Len(tk) THEN 0
    ELSE IF tk[start].depth < depth THEN 0
    ELSE IF tk[start].depth # depth
        THEN findNextKeywordAtDepth(tk, start + 1, depth, word)
    ELSE IF tk[start].kind = tkKeyword /\ tk[start].val = word THEN start
    ELSE findNextKeywordAtDepth(tk, start + 1, depth, word)

\* the keyword is taken at any depth
RECURSIVE findBetweenAnyDepth(_, _, _, _, _)
findBetweenAnyDepth(tk, i, stop, depth, word) ==
    IF ~(i < stop /\ i <= Len(tk)) THEN 0
    ELSE IF tk[i].kind = tkKeyword /\ tk[i].val = word THEN i
    ELSE findBetweenAnyDepth(tk, i + 1, stop, depth, word)

RECURSIVE findBetweenFrom(_, _, _, _, _)
findBetweenFrom(tk, i, stop, depth, word) ==
    IF ~(i < stop /\ i <= Len(tk)) THEN 0
    ELSE IF tk[i].depth # depth THEN findBetweenFrom(tk, i + 1, stop, depth, word)
    ELSE IF tk[i].kind = tkKeyword /\ tk[i].val = word THEN i
    ELSE findBetweenFrom(tk, i + 1, stop, depth, word)

findNextKeywordBetweenAtDepth(tk, start, stop, depth, word) ==
    findBetweenFrom(tk, start, IF stop < 1 THEN Len(tk) + 1 ELSE stop, depth, word)

terminators == {kwGroup, kwOrder, kwHaving, kwUnion, kwIntersect, kwExcept}

\* UNION is not taken as the end of a clause
RECURSIVE findNextTerminatorNoUnion(_, _, _)
findNextTerminatorNoUnion(tk, start, depth) ==
    IF start > Len(tk) THEN Len(tk) + 1
    ELSE IF tk[start].depth < depth THEN start
    ELSE IF tk[start].depth = depth /\ tk[start].kind = tkKeyword
            /\ tk[start].val \in (terminators \ {kwUnion}) THEN start
    ELSE findNextTerminatorNoUnion(tk, start + 1, depth)

RECURSIVE findNextTerminatorAtDepth(_, _, _)
findNextTerminatorAtDepth(tk, start, depth) ==
    IF start > Len(tk) THEN Len(tk) + 1
    ELSE IF tk[start].depth < depth THEN start
    ELSE IF tk[start].depth = depth /\ tk[start].kind = tkKeyword
            /\ tk[start].val \in terminators THEN start
    ELSE findNextTerminatorAtDepth(tk, start + 1, depth)

stripQuotes(s) ==
    IF Len(s) >= 2 /\ ( (s[1] = "\"" /\ s[Len(s)] = "\"")
                        \/ (s[1] = "'" /\ s[Len(s)] = "'") )
    THEN ToLower(Slice(s, 2, Len(s)))
    ELSE ToLower(s)

\* a first loop that also passes over single-part identifiers, so that any
\* dotted name of the FROM clause is found
RECURSIVE fromFirstDotted(_, _, _, _)
fromFirstDotted(tk, i, stop, depth) ==
    IF ~(i < stop /\ i <= Len(tk)) THEN i
    ELSE IF tk[i].depth # depth THEN fromFirstDotted(tk, i + 1, stop, depth)
    ELSE IF tk[i].kind = tkSymbol THEN
        IF tk[i].val = <<"(">> THEN 0
        ELSE fromFirstDotted(tk, i + 1, stop, depth)
    ELSE IF tk[i].kind = tkKeyword THEN
        IF tk[i].val = kwSelect THEN 0
        ELSE fromFirstDotted(tk, i + 1, stop, depth)
    ELSE IF /\ tk[i].kind = tkIdent
            /\ ~Contains(stripQuotes(tk[i].val), <<".">>)
            /\ ~(i + 1 < stop /\ tk[i+1].kind = tkSymbol /\ tk[i+1].val = <<".">>)
    THEN fromFirstDotted(tk, i + 1, stop, depth)
    ELSE i

\* the first loop of fromStartsWithBaseTable: 0 stands for "return false",
\* any other value is the position the loop leaves in i
RECURSIVE fromFirstMeaningful(_, _, _, _)
fromFirstMeaningful(tk, i, stop, depth) ==
    IF ~(i < stop /\ i <= Len(tk)) THEN i
    ELSE IF tk[i].depth # depth THEN fromFirstMeaningful(tk, i + 1, stop, depth)
    ELSE IF tk[i].kind = tkSymbol THEN
        IF tk[i].val = <<"(">> THEN 0
        ELSE fromFirstMeaningful(tk, i + 1, stop, depth)
    ELSE IF tk[i].kind = tkKeyword THEN
        IF tk[i].val = kwSelect THEN 0
        ELSE fromFirstMeaningful(tk, i + 1, stop, depth)
    ELSE i

\* "for j < stop && toks[j].depth != depth { j++ }"
RECURSIVE skipOtherDepth(_, _, _, _)
skipOtherDepth(tk, j, stop, depth) ==
    IF j < stop /\ tk[j].depth # depth THEN skipOtherDepth(tk, j + 1, stop, depth) ELSE j

\* only a single identifier containing a dot counts
fromStartsWithDottedName(tk, start, stop, depth) ==
    LET i == fromFirstMeaningful(tk, start, stop, depth) IN
    IF i = 0 THEN FALSE
    ELSE IF i >= stop \/ i > Len(tk) THEN FALSE
    ELSE IF tk[i].kind = tkIdent THEN
        IF Contains(stripQuotes(tk[i].val), <<".">>)
        THEN LET j == skipOtherDepth(tk, i + 1, stop, depth)
             IN ~(j < stop /\ tk[j].kind = tkSymbol /\ tk[j].val = <<"(">>)
        ELSE FALSE
    ELSE FALSE

fromStartsWithBaseTable(tk, start, stop, depth) ==
    LET i == fromFirstMeaningful(tk, start, stop, depth) IN
    IF i = 0 THEN FALSE
    ELSE IF i >= stop \/ i > Len(tk) THEN FALSE
    ELSE IF tk[i].kind = tkIdent THEN
        IF Contains(stripQuotes(tk[i].val), <<".">>)
        THEN LET j == skipOtherDepth(tk, i + 1, stop, depth)
             IN ~(j < stop /\ tk[j].kind = tkSymbol /\ tk[j].val = <<"(">>)
        ELSE IF /\ i + 2 < stop
                /\ tk[i+1].depth = depth /\ tk[i+1].kind = tkSymbol /\ tk[i+1].val = <<".">>
                /\ tk[i+2].depth = depth /\ tk[i+2].kind = tkIdent
        THEN TRUE
        ELSE FALSE
    ELSE FALSE

\* the loop of whereStartsWithConjunction: the position it leaves in i
RECURSIVE whereFirstMeaningful(_, _, _, _)
whereFirstMeaningful(tk, i, stop, depth) ==
    IF ~(i < stop /\ i <= Len(tk)) THEN i
    ELSE IF tk[i].depth # depth THEN whereFirstMeaningful(tk, i + 1, stop, depth)
    ELSE IF tk[i].kind = tkSymbol /\ tk[i].val = <<"\\">> THEN
        IF /\ i + 1 < stop /\ tk[i+1].depth = depth
           /\ tk[i+1].kind = tkIdent /\ tk[i+1].val = <<"n">>
        THEN whereFirstMeaningful(tk, i + 2, stop, depth)
        ELSE whereFirstMeaningful(tk, i + 1, stop, depth)
    ELSE IF tk[i].kind = tkSymbol THEN whereFirstMeaningful(tk, i + 1, stop, depth)
    ELSE i

whereStartsWithConjunction(tk, start, stop, depth) ==
    LET i == whereFirstMeaningful(tk, start, stop, depth) IN
    IF i >= stop \/ i > Len(tk) THEN TRUE
    ELSE tk[i].kind = tkKeyword /\ (tk[i].val = kwAnd \/ tk[i].val = kwOr)

isCompareOp(s) == s \in { <<"=">>, <<"<">>, <<">">>, <<"<","=">>, <<">","=">>, <<"<",">">>, <<"!","=">> }

inStrSlice(s, arr) == \E i \in 1..Len(arr) : s = arr[i]

\* only a bare column name counts
isTimeIdentifierBare(tk, i, depth, cols) ==
    IF i < 1 \/ i > Len(tk) THEN FALSE
    ELSE tk[i].depth = depth /\ tk[i].kind = tkIdent /\ inStrSlice(tk[i].val, cols)

isTimeIdentifierAt(tk, i, depth, cols) ==
    IF i < 1 \/ i > Len(tk) THEN FALSE
    ELSE IF tk[i].depth # depth \/ tk[i].kind # tkIdent THEN FALSE
    ELSE LET cur == stripQuotes(tk[i].val) IN
        \/ /\ Contains(cur, <<".">>)
           /\ inStrSlice(Slice(cur, LastIndex(cur, ".") + 1, Len(cur) + 1), cols)
        \/ /\ i + 2 <= Len(tk)
           /\ tk[i+1].depth = depth /\ tk[i+1].kind = tkSymbol /\ tk[i+1].val = <<".">>
           /\ tk[i+2].depth = depth /\ tk[i+2].kind = tkIdent
           /\ inStrSlice(stripQuotes(tk[i+2].val), cols)
        \/ inStrSlice(cur, cols)

timeFilterMacro == <<"$","_","_","t","i","m","e","f","i","l","t","e","r">>

\* the macro counts only as the first token of the body
hasTimeFilterMacroFirst(tk, start, stop, depth) ==
    /\ start < stop /\ start <= Len(tk) /\ tk[start].depth = depth
    /\ tk[start].kind = tkIdent /\ Contains(tk[start].val, timeFilterMacro)

\* the first loop of whereHasTimePredicate
hasTimeFilterMacro(tk, start, stop, depth) ==
    \E i \in start..(stop - 1) :
        /\ i <= Len(tk) /\ tk[i].depth = depth
        /\ tk[i].kind = tkIdent /\ Contains(tk[i].val, timeFilterMacro)

\* "time [op] ...": the look-ahead of the second loop at position i
timeThenOperator(tk, i, stop, depth, cols) ==
    /\ isTimeIdentifierAt(tk, i, depth, cols)
    /\ LET j == skipOtherDepth(tk, i + 1, stop, depth) IN
       \/ /\ j < stop /\ tk[j].kind = tkKeyword /\ tk[j].val = kwNot
          /\ LET n == skipOtherDepth(tk, j + 1, stop, depth)
             IN n < stop /\ tk[n].kind = tkKeyword /\ tk[n].val = kwBetween
       \/ j < stop /\ tk[j].kind = tkKeyword /\ tk[j].val = kwBetween
       \/ j < stop /\ tk[j].kind = tkSymbol /\ isCompareOp(tk[j].val)

lookBack == 6

\* the look-back stops one position short
betweenThenShortLookBack(tk, i, start, depth, cols) ==
    /\ tk[i].kind = tkKeyword /\ tk[i].val = kwBetween
    /\ \E n \in 1..(i - 1) :
        /\ n >= start /\ n >= i - (lookBack - 1)
        /\ tk[n].depth = depth
        /\ ~(tk[n].kind = tkKeyword /\ tk[n].val = kwNot)
        /\ isTimeIdentifierAt(tk, n, depth, cols)

\* "BETWEEN first, then look back": the look-back of the second loop at i
betweenThenLookBack(tk, i, start, depth, cols) ==
    /\ tk[i].kind = tkKeyword /\ tk[i].val = kwBetween
    /\ \E n \in 1..(i - 1) :
        /\ n >= start /\ n >= i - lookBack
        /\ tk[n].depth = depth
        /\ ~(tk[n].kind = tkKeyword /\ tk[n].val = kwNot)
        /\ isTimeIdentifierAt(tk, n, depth, cols)

whereHasTimePredicate(tk, start, stop0, depth, cols) ==
    LET stop == IF stop0 < 1 THEN Len(tk) + 1 ELSE stop0 IN
    \/ hasTimeFilterMacro(tk, start, stop, depth)
    \/ \E i \in start..(stop - 1) :
        /\ i <= Len(tk) /\ tk[i].depth = depth
        /\ \/ timeThenOperator(tk, i, stop, depth, cols)
           \/ betweenThenLookBack(tk, i, start, depth, cols)

\* snippetAroundTokens joins the values of the tokens start..stop-1 (cut after
\* 220 characters); the model keeps the token range the text is taken from
snippetAroundTokens(tk, start, stop) ==
    [first |-> IF start < 1 THEN 1 ELSE start,
     stop |-> IF stop < 1 \/ stop > Len(tk) + 1 THEN Len(tk) + 1 ELSE stop]

(***************************************************************************)
(* Validate                                                                *)
(***************************************************************************)
\* opts is a pointer: nil, or an Options value with its TimeColumns
Nil == [isNil |-> TRUE, TimeColumns |-> <<>>]
Options(cols) == [isNil |-> FALSE, TimeColumns |-> cols]

defaultTimeCols == << <<"t","i","m","e">>, <<"m","e","a","s","u","r","e","_","t","i","m","e">> >>

\* the given columns are added to the defaults instead of replacing them
timeColsAdded(o) ==
    IF ~o.isNil /\ Len(o.TimeColumns) > 0
    THEN defaultTimeCols \o [i \in 1..Len(o.TimeColumns) |-> ToLower(o.TimeColumns[i])]
    ELSE defaultTimeCols

\* lines 42-48
timeColsOf(o) ==
    IF ~o.isNil /\ Len(o.TimeColumns) > 0
    THEN [i \in 1..Len(o.TimeColumns) |-> ToLower(o.TimeColumns[i])]
    ELSE defaultTimeCols

reasonMissingWhere == "missing WHERE clause with time filter"
reasonConjunction == "WHERE clause starts with AND/OR; no predicate before it"
reasonNoTime == "WHERE clause lacks a time predicate on allowed time columns"

\* every issue is reported at depth 0
IssueAtTop(snip, reason, depth) == [Snippet |-> snip, Reason |-> reason, AtDepth |-> 0]

Issue(snip, reason, depth) == [Snippet |-> snip, Reason |-> reason, AtDepth |-> depth]

\* lines 58-62: the SELECT keywords, in token order
RECURSIVE collectSelects(_, _)
collectSelects(tk, i) ==
    IF i > Len(tk) THEN <<>>
    ELSE IF tk[i].kind = tkKeyword /\ tk[i].val = kwSelect
        THEN <<[selIdx |-> i, depth |-> tk[i].depth]>> \o collectSelects(tk, i + 1)
    ELSE collectSelects(tk, i + 1)

\* the verdict on the time predicate (lines 108-115)
timeVerdict(tk, s, whereIdx, whereStop, cols) ==
    IF ~whereHasTimePredicate(tk, whereIdx + 1, whereStop, s.depth, cols)
    THEN <<Issue(snippetAroundTokens(tk, s.selIdx, whereStop), reasonNoTime, s.depth)>>
    ELSE <<>>

\* In the verdict operators a position the code keeps in a local variable is
\* bound once, as the element of a one-element set.

\* the verdict on a WHERE that was found (lines 95-115); whereStop is line 96
whereVerdict(tk, s, whereIdx, cols) ==
    CHOOSE r \in
        {IF whereStartsWithConjunction(tk, whereIdx + 1, whereStop, s.depth)
         THEN <<Issue(snippetAroundTokens(tk, s.selIdx, whereStop), reasonConjunction,
                      s.depth)>>
         ELSE timeVerdict(tk, s, whereIdx, whereStop, cols) :
            whereStop \in {findNextTerminatorAtDepth(tk, whereIdx + 1, s.depth)}} : TRUE

\* the verdict on a SELECT whose FROM was found (lines 74-115)
\* the verdict on a base-table SELECT (lines 84-115)
baseTableVerdict(tk, s, fromIdx, stopIdx, cols) ==
    CHOOSE r \in
        {IF whereIdx = 0
         THEN <<Issue(snippetAroundTokens(tk, s.selIdx, stopIdx), reasonMissingWhere,
                      s.depth)>>
         ELSE whereVerdict(tk, s, whereIdx, cols) :
            whereIdx \in {findNextKeywordBetweenAtDepth(tk, fromIdx + 1, stopIdx, s.depth,
                                                        kwWhere)}} : TRUE

\* the verdict on a SELECT whose FROM was found (lines 74-115)
fromVerdict(tk, s, fromIdx, cols) ==
    CHOOSE r \in
        {IF ~fromStartsWithBaseTable(tk, fromIdx + 1, stopIdx, s.depth) THEN <<>>
         ELSE baseTableVerdict(tk, s, fromIdx, stopIdx, cols) :
            stopIdx \in {findNextTerminatorAtDepth(tk, fromIdx + 1, s.depth)}} : TRUE

\* a SELECT without FROM is reported instead of skipped
selectIssuesFromRequired(tk, s, cols) ==
    LET fromIdx == findNextKeywordAtDepth(tk, s.selIdx + 1, s.depth, kwFrom) IN
    IF fromIdx = 0
    THEN <<Issue(snippetAroundTokens(tk, s.selIdx, Len(tk) + 1), reasonMissingWhere, s.depth)>>
    ELSE fromVerdict(tk, s, fromIdx, cols)

\* the body of the loop over selects (lines 66-116): the issues one SELECT adds
selectIssues(tk, s, cols) ==
    CHOOSE r \in
        {IF fromIdx = 0 THEN <<>> ELSE fromVerdict(tk, s, fromIdx, cols) :
            fromIdx \in {findNextKeywordAtDepth(tk, s.selIdx + 1, s.depth, kwFrom)}} : TRUE

\* only a missing WHERE makes the validation fail
allPassUnlessMissingWhere(iss) == \A i \in 1..Len(iss) : iss[i].Reason # reasonMissingWhere

\* line 118
allPass(iss) == Len(iss) = 0

RECURSIVE issuesFrom(_, _, _, _)
issuesFrom(tk, sels, i, cols) ==
    IF i > Len(sels) THEN <<>>
    ELSE selectIssues(tk, sels[i], cols) \o issuesFrom(tk, sels, i + 1, cols)

\* Validate as a function of its arguments: <<bool, issues>>
Validate(text, o) ==
    LET tk == lex(stripComments(text))
        iss == issuesFrom(tk, collectSelects(tk, 1), 1, timeColsOf(o))
    IN <<allPass(iss), iss>>

(***************************************************************************)
(* Validate, step by step.                                                 *)
(***************************************************************************)
RECURSIVE Concat(_)
Concat(ps) == IF ps = <<>> THEN <<>> ELSE Head(ps) \o Concat(Tail(ps))

SeqsUpTo(S, n) == UNION {[1..m -> S] : m \in 0..n}

InitWith(inputs, options) ==
    /\ parts \in inputs
    /\ sql = Concat(parts)
    /\ opts \in options
    /\ pc = "start"
    /\ timeCols = <<>>
    /\ src = <<>>
    /\ toks = <<>>
    /\ selects = <<>>
    /\ k = 1
    /\ issues = <<>>
    /\ ok = FALSE

\* lines 42-51
Preprocess ==
    /\ pc = "start"
    /\ timeCols' = timeColsOf(opts)
    /\ src' = stripComments(sql)
    /\ toks' = lex(src')
    /\ pc' = "scan"
    /\ UNCHANGED <<parts, sql, opts, selects, k, issues, ok>>

\* lines 53-64
CollectSelects ==
    /\ pc = "scan"
    /\ selects' = collectSelects(toks, 1)
    /\ issues' = <<>>
    /\ k' = 1
    /\ pc' = "loop"
    /\ UNCHANGED <<parts, sql, opts, timeCols, src, toks, ok>>

\* one iteration of the loop of lines 66-116
CheckSelect ==
    /\ pc = "loop"
    /\ k <= Len(selects)
    /\ issues' = issues \o selectIssues(toks, selects[k], timeCols)
    /\ k' = k + 1
    /\ UNCHANGED <<parts, sql, opts, pc, timeCols, src, toks, selects, ok>>

\* line 118
Return ==
    /\ pc = "loop"
    /\ k > Len(selects)
    /\ ok' = allPass(issues)
    /\ pc' = "done"
    /\ UNCHANGED <<parts, sql, opts, timeCols, src, toks, selects, k, issues>>

Next == Preprocess \/ CollectSelects \/ CheckSelect \/ Return

(***************************************************************************)
(* Inputs: texts assembled from at most MaxParts pieces of a vocabulary.   *)
(***************************************************************************)
MaxParts == 4

pSelBase == <<"s","e","l","e","c","t"," ","*"," ","f","r","o","m"," ","d",".","t"," ">>
pSelLit == <<"s","e","l","e","c","t"," ","1"," ">>
pWhereTime == <<"w","h","e","r","e"," ","t","i","m","e"," ",">","="," ","1"," ">>
pSemi == <<";"," ">>
pOpen == <<"("," ">>
pClose == <<")"," ">>
pUnion == <<"u","n","i","o","n"," ","a","l","l"," ">>
pHaving == <<"g","r","o","u","p"," ","b","y"," ","x"," ","h","a","v","i","n","g"," ","m","a","x","(","t","i","m","e",")"," ",">","="," ","1"," ">>

Vocabulary ==
    {pSelBase, pSelLit, pWhereTime, pSemi, pOpen, pClose, pUnion, pHaving}

Init == InitWith(SeqsUpTo(Vocabulary, MaxParts), {Nil})

Spec == Init /\ [][Next]_vars

(***************************************************************************)
(* What the properties below speak about.                                  *)
(***************************************************************************)
Done == pc = "done"

\* the SELECTs the loop has visited so far
Visited == IF pc \in {"loop", "done"} THEN 1..(k - 1) ELSE {}

\* the issues raised for the n-th SELECT: an issue's snippet starts at its SELECT
IssuesOf(n) == {j \in 1..Len(issues) : issues[j].Snippet.first = selects[n].selIdx}

IsKeyword(i, word) ==
    i \in 1..Len(toks) /\ toks[i].kind = tkKeyword /\ toks[i].val = word

Min(S) == CHOOSE x \in S : \A y \in S : x <= y

\* the first position after `from` in S, or one past the last token
FirstAfter(from, S) ==
    LET hits == {i \in (from + 1)..Len(toks) : i \in S}
    IN IF hits = {} THEN Len(toks) + 1 ELSE Min(hits)

Shallower(d) == {i \in 1..Len(toks) : toks[i].depth < d}
KeywordsAt(d, words) ==
    {i \in 1..Len(toks) : toks[i].depth = d /\ toks[i].kind = tkKeyword /\ toks[i].val \in words}

\* where the block of the n-th SELECT closes
BlockEnd(n) == FirstAfter(selects[n].selIdx, Shallower(selects[n].depth))

\* the FROM of the n-th SELECT: the first FROM at its depth inside its block
\* (0 when there is none)
FromOf(n) ==
    LET f == FirstAfter(selects[n].selIdx, KeywordsAt(selects[n].depth, {kwFrom}))
    IN IF f < BlockEnd(n) THEN f ELSE 0

\* where the FROM clause of the n-th SELECT ends
ClauseEnd(n, from) ==
    FirstAfter(from, Shallower(selects[n].depth) \cup KeywordsAt(selects[n].depth, terminators))

\* the n-th SELECT reads a base table, as the validator classifies it
ReadsBaseTable(n) ==
    /\ FromOf(n) # 0
    /\ fromStartsWithBaseTable(toks, FromOf(n) + 1, ClauseEnd(n, FromOf(n)),
                               selects[n].depth)

(***************************************************************************)
(* C1: Validate returns true only if every SELECT that reads a base table  *)
(* has its own time-filtered WHERE: a WHERE at the SELECT's depth after    *)
(* its FROM, before the next SELECT at that depth and before its block     *)
(* closes, whose body holds a time predicate or the $__timeFilter macro.   *)
(***************************************************************************)
NextSelect(n) == FirstAfter(selects[n].selIdx, KeywordsAt(selects[n].depth, {kwSelect}))

\* the SELECT's own FROM: the one before the next SELECT at its depth
OwnFrom(n) == IF FromOf(n) < NextSelect(n) THEN FromOf(n) ELSE 0

ReadsBaseTableItself(n) ==
    /\ OwnFrom(n) # 0
    /\ fromStartsWithBaseTable(toks, OwnFrom(n) + 1, ClauseEnd(n, OwnFrom(n)),
                               selects[n].depth)

HasOwnTimeWhere(n) ==
    \E w \in (OwnFrom(n) + 1)..Len(toks) :
        /\ w < NextSelect(n) /\ w < BlockEnd(n)
        /\ toks[w].depth = selects[n].depth /\ IsKeyword(w, kwWhere)
        /\ whereHasTimePredicate(toks, w + 1, ClauseEnd(n, w), selects[n].depth, timeCols)

\* C1: when Validate returns true, every SELECT that reads a base table has a
\* WHERE of its own (after its FROM, before the next SELECT at its depth and
\* before its block closes) whose body holds a time predicate or the macro.
C1_EverySelectHasItsOwnWhere ==
    (Done /\ ok) => \A n \in 1..Len(selects) : ReadsBaseTableItself(n) => HasOwnTimeWhere(n)

(***************************************************************************)
(* C4: a base-table SELECT with no WHERE at its depth strictly between its *)
(* FROM and the end of the FROM clause (the first GROUP, ORDER, HAVING,    *)
(* UNION, INTERSECT or EXCEPT at its depth, the close of its block, or the *)
(* end of the input) gets the issue "missing WHERE clause with time        *)
(* filter", and Validate returns false.                                    *)
(***************************************************************************)
LacksWhere(n) ==
    /\ ReadsBaseTable(n)
    /\ ~\E w \in (FromOf(n) + 1)..(ClauseEnd(n, FromOf(n)) - 1) :
            toks[w].depth = selects[n].depth /\ IsKeyword(w, kwWhere)

\* C4: every base-table SELECT without a WHERE inside its FROM clause has a
\* "missing WHERE clause with time filter" issue at its depth, and the result
\* is false.
C4_MissingWhereIsReported ==
    \A n \in Visited :
        LacksWhere(n) =>
            /\ \E j \in IssuesOf(n) :
                  /\ issues[j].Reason = reasonMissingWhere
                  /\ issues[j].AtDepth = selects[n].depth
            /\ Done => ~ok

\* a UNION ALL whose first side has no WHERE and whose other side has a WHERE
\* with a time predicate
C4_Witness ==
    /\ Done
    /\ \E n \in Visited :
          /\ LacksWhere(n)
          /\ IsKeyword(ClauseEnd(n, FromOf(n)), kwUnion)
          /\ \E w \in 1..Len(toks) :
                /\ w > ClauseEnd(n, FromOf(n)) /\ IsKeyword(w, kwWhere)
                /\ whereHasTimePredicate(toks, w + 1, Len(toks) + 1, 0, timeCols)

(***************************************************************************)
(* C5: a SELECT with no FROM at its depth before its block closes raises   *)
(* no issue; a text without any FROM keyword yields (true, no issues).     *)
(***************************************************************************)
\* C5: a SELECT without FROM at its depth inside its block owns no issue, and
\* a text without any FROM keyword yields (true, no issues).
C5_NoFromNoIssue ==
    /\ \A n \in Visited : FromOf(n) = 0 => IssuesOf(n) = {}
    /\ (Done /\ ~\E i \in 1..Len(toks) : IsKeyword(i, kwFrom)) => (ok /\ issues = <<>>)

\* a SELECT without FROM in a text that has a FROM elsewhere, at another depth
C5_Witness ==
    /\ Done
    /\ \E n \in Visited :
          /\ FromOf(n) = 0
          /\ \E i \in 1..Len(toks) : i > selects[n].selIdx /\ IsKeyword(i, kwFrom)
    /\ issues # <<>>

(***************************************************************************)
(* The WHERE of a SELECT and its body.                                     *)
(***************************************************************************)
\* the WHERE of the n-th SELECT: the first WHERE at its depth inside its FROM
\* clause (0 when there is none)
WhereOf(n) ==
    LET w == FirstAfter(FromOf(n), KeywordsAt(selects[n].depth, {kwWhere}))
    IN IF FromOf(n) # 0 /\ w < ClauseEnd(n, FromOf(n)) THEN w ELSE 0

\* the positions of the WHERE body of the n-th SELECT that are at its depth
BodyOf(n) ==
    {i \in (WhereOf(n) + 1)..(ClauseEnd(n, WhereOf(n)) - 1) : toks[i].depth = selects[n].depth}

\* the n-th SELECT reads a base table and has a WHERE that the
\* dangling-conjunction guard does not flag
HasSoundWhere(n) ==
    /\ ReadsBaseTable(n)
    /\ WhereOf(n) # 0
    /\ ~whereStartsWithConjunction(toks, WhereOf(n) + 1, ClauseEnd(n, WhereOf(n)),
                                   selects[n].depth)

\* the last part of an identifier: what follows its last dot, quotes removed
LastPart(v) ==
    LET c == stripQuotes(v)
    IN IF LastIndex(c, ".") = 0 THEN c ELSE Slice(c, LastIndex(c, ".") + 1, Len(c) + 1)

IsIdent(i) == i \in 1..Len(toks) /\ toks[i].kind = tkIdent

\* the token after position i is a comparison operator, BETWEEN, or NOT BETWEEN
OperatorFollows(i) ==
    \/ i + 1 <= Len(toks) /\ toks[i+1].kind = tkSymbol
          /\ toks[i+1].val \in { <<"=">>, <<"<">>, <<">">>, <<"<","=">>, <<">","=">>, <<"<",">">>, <<"!","=">> }
    \/ IsKeyword(i + 1, kwBetween)
    \/ IsKeyword(i + 1, kwNot) /\ IsKeyword(i + 2, kwBetween)

HasMacro(n) == \E i \in BodyOf(n) : IsIdent(i) /\ Contains(toks[i].val, timeFilterMacro)

(***************************************************************************)
(* Inputs with Options: whole queries, joined by UNION ALL.                *)
(***************************************************************************)
MaxOptParts == 3

pQueryTime == <<"s","e","l","e","c","t"," ","*"," ","f","r","o","m"," ","d",".","t"," ","w","h","e","r","e"," ","t","i","m","e"," ",">","="," ","1"," ">>
pQueryEvent == <<"s","e","l","e","c","t"," ","*"," ","f","r","o","m"," ","d",".","t"," ","w","h","e","r","e"," ","E","V","E","N","T","_","t","s"," ",">","="," ","1"," ">>
pQueryMeasure == <<"s","e","l","e","c","t"," ","*"," ","f","r","o","m"," ","d",".","t"," ","w","h","e","r","e"," ","s",".","M","e","a","s","u","r","e","_","T","i","m","e"," ","<"," ","1"," ">>
pQueryOther == <<"s","e","l","e","c","t"," ","*"," ","f","r","o","m"," ","d",".","t"," ","w","h","e","r","e"," ","x"," ","="," ","1"," ">>

OptVocabulary == {pQueryTime, pQueryEvent, pQueryMeasure, pQueryOther, pSelBase, pUnion}

OptionValues ==
    { Nil, Options(<<>>), Options(<< <<"e","v","e","n","t","_","t","s">> >>), Options(<< <<"E","v","e","n","t","_","T","S">> >>),
      Options(<< <<"t","s">>, <<"T","I","M","E">> >>) }

InitOpts == InitWith(SeqsUpTo(OptVocabulary, MaxOptParts), OptionValues)

SpecOpts == InitOpts /\ [][Next]_vars

\* C2: for every text and every Options value, the boolean Validate returns is
\* true if and only if the issue list it returns is empty.
C2_PassIffNoIssues == Done => (ok <=> issues = <<>>)

\* a failing run with two issues, under caller-supplied time columns
C2_Witness == Done /\ ~ok /\ Len(issues) = 2 /\ ~opts.isNil /\ opts.TimeColumns # <<>>

\* the accepted time columns, as the interface states them
AcceptedColumns ==
    IF opts.isNil \/ opts.TimeColumns = <<>>
    THEN { <<"t","i","m","e">>, <<"m","e","a","s","u","r","e","_","t","i","m","e">> }
    ELSE {ToLower(opts.TimeColumns[i]) : i \in 1..Len(opts.TimeColumns)}

ComparesAcceptedColumn(n) ==
    \E i \in BodyOf(n) :
        /\ IsIdent(i) /\ LastPart(toks[i].val) \in AcceptedColumns
        /\ toks[i+1].kind = tkSymbol /\ isCompareOp(toks[i+1].val)

NamesNoAcceptedColumn(n) ==
    \A i \in BodyOf(n) : IsIdent(i) => LastPart(toks[i].val) \notin AcceptedColumns

\* C8: the accepted time columns are {time, measure_time} when opts is nil or
\* TimeColumns is empty; a non-empty TimeColumns replaces that set and is
\* matched case-insensitively: a comparison on an accepted column passes, a
\* WHERE that names no accepted column raises the "lacks a time predicate" issue.
C8_TimeColumnsReplaceDefaults ==
    /\ pc # "start" => Range(timeCols) = AcceptedColumns
    /\ \A n \in Visited :
          HasSoundWhere(n) =>
              /\ ComparesAcceptedColumn(n) => IssuesOf(n) = {}
              /\ (NamesNoAcceptedColumn(n) /\ ~HasMacro(n)) =>
                    \E j \in IssuesOf(n) : issues[j].Reason = reasonNoTime

\* TimeColumns = {"Event_TS"}: the query filtered on EVENT_ts passes and the
\* query filtered on time is reported
C8_Witness ==
    /\ Done
    /\ opts = Options(<< <<"E","v","e","n","t","_","T","S">> >>)
    /\ parts = <<pQueryEvent, pUnion, pQueryTime>>
    /\ Len(issues) = 1
    /\ issues[1].Reason = reasonNoTime
    /\ issues[1].Snippet.first = selects[2].selIdx

(***************************************************************************)
(* Inputs for the time predicate: one base-table SELECT whose WHERE body   *)
(* is assembled from at most MaxPred pieces.                               *)
(***************************************************************************)
MaxPred == 3

pSelWhere == <<"s","e","l","e","c","t"," ","*"," ","f","r","o","m"," ","d",".","t"," ","w","h","e","r","e"," ">>
pTime == <<"t","i","m","e"," ">>
pDotted == <<"s","1",".","T","i","m","e"," ">>
pQuoted == <<"\"","s","1","\"",".","\"","t","i","m","e","\""," ">>
pOtherCol == <<"x"," ">>
pGe == <<">","="," ">>
pNe == <<"<",">"," ">>
pBetween == <<"b","e","t","w","e","e","n"," ">>
pNot == <<"n","o","t"," ">>
pAnd == <<"a","n","d"," ">>
pOne == <<"1"," ">>
pOrder == <<"o","r","d","e","r"," ","b","y"," ">>

PredVocabulary ==
    {pTime, pDotted, pQuoted, pOtherCol, pGe, pNe, pBetween, pNot, pAnd, pOne,
     pOpen, pClose, pOrder}

InitPred ==
    InitWith({<<pSelWhere>> \o q : q \in SeqsUpTo(PredVocabulary, MaxPred)}, {Nil})

SpecPred == InitPred /\ [][Next]_vars

\* a time identifier in the WHERE body of the n-th SELECT, at its depth, whose
\* next token is a comparison operator, BETWEEN, or NOT BETWEEN
HasTimeComparison(n) ==
    \E i \in BodyOf(n) :
        /\ IsIdent(i) /\ LastPart(toks[i].val) \in Range(timeCols)
        /\ OperatorFollows(i)

\* C3: a base-table SELECT whose WHERE body is not flagged by the
\* dangling-conjunction guard raises no issue whenever the body holds, at the
\* SELECT's depth, a time identifier (bare, dotted or quoted, last part in the
\* time-column set) whose next token is a comparison operator, BETWEEN, or NOT
\* followed by BETWEEN.
C3_TimeComparisonPasses ==
    \A n \in Visited : (HasSoundWhere(n) /\ HasTimeComparison(n)) => IssuesOf(n) = {}

\* the quoted form with NOT BETWEEN
C3_Witness ==
    /\ Done
    /\ parts = <<pSelWhere, pQuoted, pNot, pBetween>>
    /\ HasSoundWhere(1) /\ HasTimeComparison(1)
    /\ ok

(***************************************************************************)
(* Inputs with comments: a query, a time predicate that continues it, and  *)
(* the comment markers, in any order.                                      *)
(***************************************************************************)
MaxCommentParts == 4

pAndTime == <<"a","n","d"," ","t","i","m","e"," ",">","="," ","1"," ">>
pLine == <<"-","-"," ">>
pNewline == <<"\n">>
pBlockOpen == <<"/","*"," ">>
pBlockClose == <<"*","/"," ">>

CommentVocabulary == {pQueryOther, pAndTime, pLine, pNewline, pBlockOpen, pBlockClose}

InitComments == InitWith(SeqsUpTo(CommentVocabulary, MaxCommentParts), {Nil})

SpecComments == InitComments /\ [][Next]_vars

\* the pieces of ps that are outside comments; mode says whether the text so
\* far has left a line comment ("line") or a block comment ("block") open.
\* A line comment runs up to the next newline, which stays; a block comment
\* runs up to and including its closing marker.
RECURSIVE UncommentedFrom(_, _)
UncommentedFrom(ps, mode) ==
    IF ps = <<>> THEN <<>>
    ELSE LET p == Head(ps) IN
        IF mode = "line" THEN
            IF p = pNewline THEN <<p>> \o UncommentedFrom(Tail(ps), "none")
            ELSE UncommentedFrom(Tail(ps), "line")
        ELSE IF mode = "block" THEN
            UncommentedFrom(Tail(ps), IF p = pBlockClose THEN "none" ELSE "block")
        ELSE IF p = pLine THEN UncommentedFrom(Tail(ps), "line")
        ELSE IF p = pBlockOpen THEN UncommentedFrom(Tail(ps), "block")
        ELSE <<p>> \o UncommentedFrom(Tail(ps), "none")

Uncommented(ps) == UncommentedFrom(ps, "none")

\* the text has a base-table SELECT outside comments, and a time predicate
\* inside a comment only
TimePredicateOnlyInComment ==
    /\ pQueryOther \in Range(Uncommented(parts))
    /\ pAndTime \in Range(parts)
    /\ pAndTime \notin Range(Uncommented(parts))

\* C6: the characters of a line comment (up to, not including, the next
\* newline) and of a block comment contribute to no token: the token stream is
\* that of the text outside comments.  A base-table SELECT whose only time
\* predicate is written inside a comment raises an issue, and Validate returns
\* false.
C6_CommentsNeverReachTokens ==
    /\ pc # "start" => toks = lex(Concat(Uncommented(parts)))
    /\ (Done /\ TimePredicateOnlyInComment) =>
          /\ ~ok
          /\ \E j \in 1..Len(issues) : issues[j].Reason = reasonNoTime

\* the time predicate sits in a line comment, and a newline ends the comment
C6_Witness ==
    /\ Done
    /\ parts = <<pQueryOther, pLine, pAndTime, pNewline>>
    /\ ~ok

\* the serialized form of a text: every newline becomes backslash, n
RECURSIVE SerializeRange(_, _, _)
SerializeRange(s, lo, hi) ==
    IF lo > hi THEN <<>>
    ELSE IF lo = hi THEN (IF s[lo] = "\n" THEN <<"\\", "n">> ELSE <<s[lo]>>)
    ELSE LET mid == (lo + hi) \div 2
         IN SerializeRange(s, lo, mid) \o SerializeRange(s, mid + 1, hi)

Serialize(s) == SerializeRange(s, 1, Len(s))

\* C10: a text and its serialized form get the same verdict (the texts of
\* these inputs hold no quoted text).
C10_SerializedFormSameVerdict ==
    Done => ok = Validate(Serialize(sql), opts)[1]

(***************************************************************************)
(* Inputs with the $__timeFilter macro: one base-table SELECT whose WHERE  *)
(* body is assembled from at most MaxMacroParts pieces.                    *)
(***************************************************************************)
MaxMacroParts == 3

pMacro == <<"$","_","_","t","i","m","e","F","i","l","t","e","r"," ">>
pMacroUpper == <<"$","_","_","T","I","M","E","F","I","L","T","E","R","(","t","i","m","e",")"," ">>
pMacroString == <<"'","$","_","_","t","i","m","e","F","i","l","t","e","r","'"," ">>
pOr == <<"o","r"," ">>
pOtherPred == <<"x"," ","="," ","1"," ">>
pGroup == <<"g","r","o","u","p"," ","b","y"," ","x"," ">>

MacroVocabulary ==
    {pMacro, pMacroUpper, pMacroString, pAnd, pOr, pOtherPred, pOpen, pClose, pGroup}

InitMacro ==
    InitWith({<<pSelWhere>> \o q : q \in SeqsUpTo(MacroVocabulary, MaxMacroParts)}, {Nil})

SpecMacro == InitMacro /\ [][Next]_vars

MaxNestParts == 4

pSelDerived == <<"s","e","l","e","c","t"," ","*"," ","f","r","o","m"," ","("," ">>
pSelJoin == <<"s","e","l","e","c","t"," ","*"," ","f","r","o","m"," ","d",".","t"," ","j","o","i","n"," ","("," ">>
pCloseAlias == <<")"," ","x"," ">>
pWhereCall == <<"w","h","e","r","e"," ","t","i","m","e"," ","+"," ","f","(","1",","," ","1",")"," ","b","e","t","w","e","e","n"," ","1"," ","a","n","d"," ","2"," ">>
pCte == <<"w","i","t","h"," ","a"," ","a","s"," ","("," ">>
pCloseSelAlias == <<")"," ","s","e","l","e","c","t"," ","*"," ","f","r","o","m"," ","a"," ">>

NestVocabulary ==
    {pSelBase, pSelDerived, pSelJoin, pCloseAlias, pWhereTime, pWhereCall, pCte,
     pCloseSelAlias}

InitNest == InitWith(SeqsUpTo(NestVocabulary, MaxNestParts), {Nil})

SpecNest == InitNest /\ [][Next]_vars

IsSymbol(i, c) == i \in 1..Len(toks) /\ toks[i].kind = tkSymbol /\ toks[i].val = <<c>>

\* every ")" closes an earlier "(", and every "(" is closed
Balanced ==
    LET opened(i) == Cardinality({j \in 1..i : IsSymbol(j, "(")})
        closed(i) == Cardinality({j \in 1..i : IsSymbol(j, ")")})
    IN /\ \A i \in 1..Len(toks) : closed(i) <= opened(i)
       /\ closed(Len(toks)) = opened(Len(toks))

\* the reasons of the issues raised for the n-th SELECT
ReasonsOf(n) == {issues[j].Reason : j \in IssuesOf(n)}

\* the tokens of the block of the n-th SELECT, from the SELECT on, that are at
\* its depth
OwnTokens(n) ==
    LET atDepth(t) == t.depth = selects[n].depth
    IN SelectSeq(SubSeq(toks, selects[n].selIdx, BlockEnd(n) - 1), atDepth)

\* the verdict on the n-th SELECT when nothing but its own tokens is there
ReasonsOnOwnTokens(n) ==
    LET iss == selectIssues(OwnTokens(n), [selIdx |-> 1, depth |-> selects[n].depth],
                            timeCols)
    IN {iss[j].Reason : j \in 1..Len(iss)}

NestedTokensBeforeBetween(n) ==
    \E b \in BodyOf(n) :
        /\ IsKeyword(b, kwBetween)
        /\ \E j \in (b - lookBack)..(b - 1) : j >= 1 /\ toks[j].depth > selects[n].depth

\* a time identifier or the macro in the WHERE body, at the depth of the SELECT
NamesTimeAtOwnDepth(n) ==
    \E i \in BodyOf(n) :
        /\ IsIdent(i)
        /\ \/ LastPart(toks[i].val) \in Range(timeCols)
           \/ Contains(toks[i].val, timeFilterMacro)

\* the FROM source of the n-th SELECT is a single-part name
ReadsAlias(n) ==
    /\ FromOf(n) # 0
    /\ IsIdent(FromOf(n) + 1)
    /\ ~Contains(stripQuotes(toks[FromOf(n) + 1].val), <<".">>)
    /\ ~IsSymbol(FromOf(n) + 2, ".")

MaxGuardParts == 3

pParenPred == <<"(","x"," ","="," ","1",")"," ">>
pTimePred == <<"t","i","m","e"," ",">","="," ","1"," ">>
pEscape == <<"\\"," ","n"," ">>
pComma == <<","," ">>

GuardVocabulary ==
    {pOtherPred, pParenPred, pTimePred, pAnd, pOr, pEscape, pComma, pOpen, pClose, pGroup}

InitGuard ==
    InitWith({<<pSelWhere>> \o q : q \in SeqsUpTo(GuardVocabulary, MaxGuardParts)}, {Nil})

SpecGuard == InitGuard /\ [][Next]_vars

\* the token at i is a serialized-escape artifact: a backslash, or the n that
\* follows one
IsEscapeArtifact(i) ==
    \/ IsSymbol(i, "\\")
    \/ IsIdent(i) /\ toks[i].val = <<"n">> /\ IsSymbol(i - 1, "\\")

\* the tokens of the WHERE body of the n-th SELECT, nested ones included,
\* that are neither symbols nor serialized-escape artifacts
MeaningfulInBody(n) ==
    {i \in (WhereOf(n) + 1)..(ClauseEnd(n, WhereOf(n)) - 1) :
        toks[i].kind # tkSymbol /\ ~IsEscapeArtifact(i)}

\* the WHERE body is empty, or its first token other than stray symbols and
\* escape artifacts is AND or OR
DanglingConjunction(n) ==
    \/ MeaningfulInBody(n) = {}
    \/ IsKeyword(Min(MeaningfulInBody(n)), kwAnd)
    \/ IsKeyword(Min(MeaningfulInBody(n)), kwOr)

\* C11: for a base-table SELECT that has a WHERE, the issue "WHERE clause
\* starts with AND/OR; no predicate before it" is raised exactly when the
\* WHERE body is empty or its first token, other than stray symbols and
\* serialized-escape artifacts, is AND or OR; a body in which a predicate (a
\* parenthesized one included) precedes the first AND/OR is not flagged; when
\* the guard fires, it is the only issue of that SELECT.
C11_GuardFlagsDanglingConjunction ==
    \A n \in Visited :
        (ReadsBaseTable(n) /\ WhereOf(n) # 0) =>
            /\ (reasonConjunction \in ReasonsOf(n)) <=> DanglingConjunction(n)
            /\ (reasonConjunction \in ReasonsOf(n)) => Cardinality(IssuesOf(n)) = 1

(***************************************************************************)
(* Inputs for the classification of the FROM source: one SELECT whose FROM *)
(* clause is assembled from at most MaxFromParts pieces.                   *)
(***************************************************************************)
MaxFromParts == 3

pSelFrom == <<"s","e","l","e","c","t"," ","*"," ","f","r","o","m"," ">>
pDottedTable == <<"d",".","t"," ">>
pQuotedTable == <<"\"","d","\"",".","\"","t","\""," ">>
pAlias == <<"a"," ">>
pCall == <<"f",".","g","(","1",")"," ">>
pLateral == <<"l","a","t","e","r","a","l"," ">>
pSelect == <<"s","e","l","e","c","t"," ">>

FromVocabulary ==
    {pDottedTable, pQuotedTable, pAlias, pCall, pLateral, pSelect, pOne, pComma, pOpen,
     pClose, pGroup}

InitFrom ==
    InitWith({<<pSelFrom>> \o q : q \in SeqsUpTo(FromVocabulary, MaxFromParts)}, {Nil})

SpecFrom == InitFrom /\ [][Next]_vars

\* the positions of the FROM clause of the n-th SELECT that are at its depth
SourceOf(n) ==
    {i \in (FromOf(n) + 1)..(ClauseEnd(n, FromOf(n)) - 1) : toks[i].depth = selects[n].depth}

\* the token at p is an identifier that names a base table: it contains a dot
\* and no "(" follows it, or it starts identifier . identifier
NamesBaseTable(n, p) ==
    /\ IsIdent(p)
    /\ \/ /\ Contains(stripQuotes(toks[p].val), <<".">>)
          /\ ~(p + 1 \in SourceOf(n) /\ IsSymbol(p + 1, "("))
       \/ /\ p + 1 \in SourceOf(n) /\ IsSymbol(p + 1, ".")
          /\ p + 2 \in SourceOf(n) /\ IsIdent(p + 2)

\* the first token of the FROM clause after skipping only symbols other than "("
FirstAfterSymbols(n) ==
    {i \in SourceOf(n) :
        /\ ~(toks[i].kind = tkSymbol /\ ~IsSymbol(i, "("))
        /\ \A j \in SourceOf(n) : j < i => (toks[j].kind = tkSymbol /\ ~IsSymbol(j, "("))}

\* C12, as stated: the FROM source is a base table if and only if, after
\* skipping only stray symbols other than "(", the first meaningful token of
\* the FROM clause at the SELECT's depth is an identifier naming a base table;
\* in every other case the SELECT raises no issue.
C12_BaseTableAfterSymbolsOnly ==
    \A n \in Visited :
        FromOf(n) # 0 =>
            LET base == \E p \in FirstAfterSymbols(n) : NamesBaseTable(n, p)
            IN /\ ReadsBaseTable(n) <=> base
               /\ ~base => IssuesOf(n) = {}

\* the first token of the FROM clause after skipping symbols other than "("
\* and keywords other than SELECT
FirstSource(n) ==
    LET skipped(i) == \/ toks[i].kind = tkSymbol /\ ~IsSymbol(i, "(")
                      \/ toks[i].kind = tkKeyword /\ ~IsKeyword(i, kwSelect)
    IN {i \in SourceOf(n) : ~skipped(i) /\ \A j \in SourceOf(n) : j < i => skipped(j)}

\* C12, amended: the FROM source is a base table if and only if, after
\* skipping stray symbols other than "(" and keywords other than SELECT, the
\* first meaningful token of the FROM clause at the SELECT's depth is an
\* identifier naming a base table; in every other case (the token is "(", the
\* keyword SELECT, a number or string, a single bare identifier, or there is
\* none) the SELECT raises no issue.
C12_BaseTableAfterSymbolsAndKeywords ==
    \A n \in Visited :
        FromOf(n) # 0 =>
            LET base == \E p \in FirstSource(n) : NamesBaseTable(n, p)
            IN /\ ReadsBaseTable(n) <=> base
               /\ ~base => IssuesOf(n) = {}
               /\ (base /\ WhereOf(n) = 0) => ReasonsOf(n) = {reasonMissingWhere}

\* a quoted table name after the keyword LATERAL
C12_Witness ==
    /\ Done
    /\ parts = <<pSelFrom, pLateral, pQuotedTable>>
    /\ \E p \in FirstSource(1) : NamesBaseTable(1, p)
    /\ ReasonsOf(1) = {reasonMissingWhere}

(***************************************************************************)
(* Inputs for the BETWEEN look-back: one base-table SELECT whose WHERE     *)
(* body is assembled from at most MaxBetweenParts pieces, some of them     *)
(* several tokens long.                                                    *)
(***************************************************************************)
MaxBetweenParts == 4

pPlus == <<"+"," ","1"," ">>
pPlusPlus == <<"+"," ","1"," ","+"," ","1"," ">>
pCallOne == <<"f","(","1",")"," ">>

BetweenVocabulary == {pTime, pOtherCol, pPlus, pPlusPlus, pCallOne, pBetween, pNot, pAnd}

InitBetween ==
    InitWith({<<pSelWhere>> \o q : q \in SeqsUpTo(BetweenVocabulary, MaxBetweenParts)}, {Nil})

SpecBetween == InitBetween /\ [][Next]_vars

Max(S) == CHOOSE x \in S : \A y \in S : y <= x

\* the token at i is a time identifier: its last part is a time column, or it
\* starts identifier . identifier whose last identifier is one
IsTimeIdent(i) ==
    /\ IsIdent(i)
    /\ \/ LastPart(toks[i].val) \in Range(timeCols)
       \/ /\ IsSymbol(i + 1, ".") /\ IsIdent(i + 2)
          /\ toks[i+1].depth = toks[i].depth /\ toks[i+2].depth = toks[i].depth
          /\ LastPart(toks[i+2].val) \in Range(timeCols)

\* the nearest token of the WHERE body before b at the SELECT's depth, an
\* intervening NOT skipped (0 when there is none)
NearestBefore(n, b) ==
    LET before == {j \in BodyOf(n) : j < b}
        rest == IF before # {} /\ IsKeyword(Max(before), kwNot)
                THEN before \ {Max(before)} ELSE before
    IN IF rest = {} THEN 0 ELSE Max(rest)

\* the SELECT passed the guard, and neither the macro nor a time identifier
\* followed by an operator is there: only the look-back rule can accept
OnlyLookBackCanAccept(n) == HasSoundWhere(n) /\ ~HasMacro(n) /\ ~HasTimeComparison(n)

\* C13, as stated: the look-back rule accepts a WHERE body only when the
\* nearest token before BETWEEN at the SELECT's depth (a NOT skipped), within
\* 6 token positions and inside the WHERE body, is a time identifier.
C13_NearestTokenIsTime ==
    \A n \in Visited :
        (OnlyLookBackCanAccept(n) /\ IssuesOf(n) = {}) =>
            \E b \in BodyOf(n) :
                /\ IsKeyword(b, kwBetween)
                /\ NearestBefore(n, b) # 0
                /\ NearestBefore(n, b) >= b - lookBack
                /\ IsTimeIdent(NearestBefore(n, b))

\* a BETWEEN with a time identifier at the SELECT's depth among the lookBack
\* token positions before it, inside the WHERE body
TimeWithinLookBack(n) ==
    \E b \in BodyOf(n) :
        /\ IsKeyword(b, kwBetween)
        /\ \E j \in BodyOf(n) : j < b /\ j >= b - lookBack /\ IsTimeIdent(j)

\* C13, amended: the look-back rule accepts a WHERE body exactly when some
\* token at the SELECT's depth among the 6 token positions before a BETWEEN,
\* not before the start of the WHERE body, is a time identifier, whatever the
\* tokens between the two are.
C13_TimeWithinLookBack ==
    \A n \in Visited :
        OnlyLookBackCanAccept(n) => (IssuesOf(n) = {} <=> TimeWithinLookBack(n))

\* time lies exactly 6 positions before BETWEEN, behind another column
C13_Witness ==
    /\ Done
    /\ parts = <<pSelWhere, pTime, pPlusPlus, pOtherCol, pBetween>>
    /\ OnlyLookBackCanAccept(1) /\ TimeWithinLookBack(1)
    /\ ok

\* C14: the issue list is ordered by the token position of the owning SELECT
\* keyword, holds at most one issue per SELECT keyword, and every issue
\* carries one of the three reasons and, as AtDepth, the depth of its SELECT.
C14_IssuesInSourceOrder ==
    /\ \A j \in 1..Len(issues) :
          /\ issues[j].Reason \in {reasonMissingWhere, reasonConjunction, reasonNoTime}
          /\ \E n \in Visited :
                /\ issues[j].Snippet.first = selects[n].selIdx
                /\ issues[j].AtDepth = selects[n].depth
    /\ \A i, j \in 1..Len(issues) :
          i < j => issues[i].Snippet.first < issues[j].Snippet.first
    /\ \A n \in Visited : Cardinality(IssuesOf(n)) <= 1

\* an outer SELECT and the SELECT nested in it both raise an issue: the outer
\* one comes first
C14_Witness ==
    /\ Done
    /\ Len(issues) = 2
    /\ issues[1].AtDepth = 0 /\ issues[2].AtDepth = 1
    /\ issues[1].Reason = reasonMissingWhere /\ issues[2].Reason = reasonNoTime

(***************************************************************************)
(* Inputs for the depth of tokens: parentheses, matched or not, quoted     *)
(* parentheses and a SELECT, at most MaxParenParts pieces.                 *)
(***************************************************************************)
MaxParenParts == 5

pQuotedParens == <<"'","(","'"," ","\"",")","\""," ">>

ParenVocabulary == {pOpen, pClose, pQuotedParens, pSelLit}

InitParens == InitWith(SeqsUpTo(ParenVocabulary, MaxParenParts), {Nil})

SpecParens == InitParens /\ [][Next]_vars

\* the numbers of "(" and ")" tokens among the tokens i..j
OpenedIn(i, j) == Cardinality({m \in i..j : IsSymbol(m, "(")})
ClosedIn(i, j) == Cardinality({m \in i..j : IsSymbol(m, ")")})

\* the ")" at j closes the "(" at i
Matched(i, j) ==
    /\ i < j /\ IsSymbol(i, "(") /\ IsSymbol(j, ")")
    /\ OpenedIn(i, j) = ClosedIn(i, j)
    /\ \A m \in i..(j - 1) : OpenedIn(i, m) > ClosedIn(i, m)

\* the depth in force after the token at i
DepthAfter(i) == IF IsSymbol(i, "(") THEN toks[i].depth + 1 ELSE toks[i].depth

\* C15: every token's depth is >= 0; "(" carries the depth before the
\* increment and ")" the depth after the decrement, which never goes below 0;
\* a matched pair of parentheses carries equal depths, and every token
\* strictly between them a strictly greater one; an unmatched ")" has depth
\* 0; parentheses inside quoted text are no parenthesis tokens and leave the
\* depth as it is.
C15_DepthOfTokens ==
    /\ \A i \in 1..Len(toks) : toks[i].depth >= 0
    /\ Len(toks) > 0 => toks[1].depth = 0
    /\ \A i \in 1..(Len(toks) - 1) :
          toks[i+1].depth =
              IF IsSymbol(i + 1, ")")
              THEN (IF DepthAfter(i) = 0 THEN 0 ELSE DepthAfter(i) - 1)
              ELSE DepthAfter(i)
    /\ \A i, j \in 1..Len(toks) :
          Matched(i, j) =>
              /\ toks[i].depth = toks[j].depth
              /\ \A m \in (i + 1)..(j - 1) : toks[m].depth > toks[i].depth
    /\ \A j \in 1..Len(toks) :
          (IsSymbol(j, ")") /\ ~\E i \in 1..j : Matched(i, j)) => toks[j].depth = 0
    /\ \A i \in 1..Len(toks) :
          (toks[i].kind \in {tkString, tkIdent} /\ i < Len(toks) /\ ~IsSymbol(i + 1, ")"))
              => toks[i+1].depth = toks[i].depth

\* a matched pair around quoted parentheses, then an unmatched ")" and a
\* SELECT at depth 0
C15_Witness ==
    /\ Done
    /\ parts = <<pOpen, pQuotedParens, pClose, pClose, pSelLit>>
    /\ Matched(1, 4) /\ toks[2].kind = tkString /\ toks[3].kind = tkIdent
    /\ toks[2].depth = 1 /\ toks[3].depth = 1
    /\ toks[5].depth = 0 /\ selects[1].depth = 0

(***************************************************************************)
(* Malformed inputs: a query with an unterminated quote, an unterminated   *)
(* block comment, an unmatched ")" or a backslash at the end, at most      *)
(* MaxMalformedParts pieces.  Validate is one sequential run: each of its  *)
(* steps is taken once it is enabled.                                      *)
(***************************************************************************)
MaxMalformedParts == 3

pOpenQuote == <<"'","x"," ">>
pBackslash == <<"\\">>

MalformedVocabulary == {pQueryTime, pOpenQuote, pBlockOpen, pClose, pBackslash}

InitMalformed == InitWith(SeqsUpTo(MalformedVocabulary, MaxMalformedParts), {Nil})

SpecMalformed == InitMalformed /\ [][Next]_vars /\ WF_vars(Next)

\* the states of the two loops after m iterations
StripAt(m) == stripLoop(sql, [b |-> <<>>, i |-> 1, inLine |-> FALSE, inBlock |-> FALSE], m)
LexAt(m) == lexLoop(src, [out |-> <<>>, i |-> 1, depth |-> 0], m)

\* every iteration of the two loops moves its position forward, by one or two
\* characters or to the end of a token, and never beyond the end of the text;
\* after as many iterations as the text has characters both loops are over
LoopsConsumeInput ==
    /\ \A m \in 0..Len(sql) :
          StripAt(m).i <= Len(sql) =>
              /\ stripStep(sql, StripAt(m)).i > StripAt(m).i
              /\ stripStep(sql, StripAt(m)).i <= Len(sql) + 1
    /\ StripAt(Len(sql)).i = Len(sql) + 1
    /\ \A m \in 0..Len(src) :
          LexAt(m).i <= Len(src) =>
              /\ lexStep(src, LexAt(m)).i > LexAt(m).i
              /\ lexStep(src, LexAt(m)).i <= Len(src) + 1
    /\ LexAt(Len(src)).i = Len(src) + 1

\* the scans for the n-th SELECT go forward: FROM after SELECT, the end of the
\* FROM clause after FROM, WHERE between the two, the end of the WHERE body
\* after WHERE, none beyond the end of the tokens
ScansGoForward(n) ==
    LET s == selects[n]
        f == findNextKeywordAtDepth(toks, s.selIdx + 1, s.depth, kwFrom)
        stop == findNextTerminatorAtDepth(toks, f + 1, s.depth)
        w == findNextKeywordBetweenAtDepth(toks, f + 1, stop, s.depth, kwWhere)
        wstop == findNextTerminatorAtDepth(toks, w + 1, s.depth)
    IN f # 0 =>
          /\ s.selIdx < f /\ f < stop /\ stop <= Len(toks) + 1
          /\ w # 0 => (f < w /\ w < stop /\ w < wstop /\ wstop <= Len(toks) + 1)

\* the input leaves a quote open: the text after comment stripping has one
\* single quote (the pieces hold no other quote character)
QuoteLeftOpen == Cardinality({i \in 1..Len(src) : src[i] = "'"}) = 1

\* the input leaves a block comment open (the pieces hold no closing marker)
BlockLeftOpen == pBlockOpen \in Range(parts)

TextBefore(ps, p) ==
    LET first == Min({i \in 1..Len(ps) : ps[i] = p})
    IN Concat(SubSeq(ps, 1, first - 1))

MalformedInputHandled ==
    /\ pc = "scan" => LoopsConsumeInput
    /\ \A n \in Visited : ScansGoForward(n)
    /\ (pc # "start" /\ QuoteLeftOpen) =>
          LET q == Min({i \in 1..Len(src) : src[i] = "'"})
          IN /\ toks # <<>>
             /\ toks[Len(toks)].kind = tkString
             /\ toks[Len(toks)].val = SubSeq(src, q, Len(src))
    /\ (pc # "start" /\ BlockLeftOpen) => src = TextBefore(parts, pBlockOpen)

\* C16: stripComments, lex and Validate come to an end with a result on every
\* input, malformed ones included: every iteration of the loops consumes at
\* least one character, an unterminated quote becomes one token spanning the
\* rest of the input, an unterminated block comment discards the rest of the
\* input, each scan for a SELECT only moves forward, and Validate returns.
C16_ValidateTerminates == []MalformedInputHandled /\ <>Done

\* a query followed by an unterminated quote and an unterminated block comment
C16_Witness ==
    /\ Done
    /\ parts = <<pQueryTime, pOpenQuote, pBlockOpen>>
    /\ QuoteLeftOpen /\ BlockLeftOpen
    /\ toks[Len(toks)].val = pOpenQuote
    /\ ok

(***************************************************************************)
(* Inputs with string literals: a query, and string literals that hold a   *)
(* comment marker, a time predicate or a query, at most MaxQuoteParts      *)
(* pieces.  Every quote of these texts delimits a literal, and no text     *)
(* outside the literals holds a comment marker.                            *)
(***************************************************************************)
MaxQuoteParts == 4

pSelWhereX == <<"s","e","l","e","c","t"," ","*"," ","f","r","o","m"," ","d",".","t"," ","w","h","e","r","e"," ","x"," ","="," ">>
pAndNote == <<"a","n","d"," ","n","o","t","e"," ","="," ">>
pStrDashes == <<"'","-","-","'"," ">>
pStrPred == <<"'"," ","a","n","d"," ","t","i","m","e"," ",">","="," ","1"," ","'"," ">>
pStrSelect == <<"'","s","e","l","e","c","t"," ","*"," ","f","r","o","m"," ","d",".","t","'"," ">>

StringLiterals == {pStrDashes, pStrPred, pStrSelect}

QuoteVocabulary == {pSelWhereX, pAndNote, pNewline} \cup StringLiterals

InitQuotes == InitWith(SeqsUpTo(QuoteVocabulary, MaxQuoteParts), {Nil})

SpecQuotes == InitQuotes /\ [][Next]_vars

\* the pieces of the input that are not string literals
OutsideLiterals(ps) ==
    LET outside(p) == p \notin StringLiterals IN SelectSeq(ps, outside)

NotString(t) == t.kind # tkString

\* a is b with some elements left out
RECURSIVE IsSubsequence(_, _)
IsSubsequence(a, b) ==
    IF a = <<>> THEN TRUE
    ELSE IF b = <<>> THEN FALSE
    ELSE IF Head(a) = Head(b) THEN IsSubsequence(Tail(a), Tail(b))
    ELSE IsSubsequence(a, Tail(b))

\* C17: the text inside the single-quoted string literals of the input never
\* becomes keyword, identifier or symbol tokens: the tokens other than string
\* tokens all come, in order, from the text outside the literals; a SELECT
\* inside a literal creates no SELECT site, and a time predicate inside a
\* literal satisfies no SELECT (in these inputs no time predicate is outside
\* the literals, so every base-table SELECT raises an issue).
C17_LiteralsGiveNoTokens ==
    pc # "start" =>
        /\ IsSubsequence(SelectSeq(toks, NotString), lex(Concat(OutsideLiterals(parts))))
        /\ \A n \in Visited : ReadsBaseTable(n) => IssuesOf(n) # {}

\* C18: no two issues are raised for the same FROM keyword: the SELECTs that
\* raise an issue have pairwise distinct FROM tokens, and the number of issues
\* never exceeds the number of FROM keywords of the token stream.
C18_OneIssuePerFrom ==
    /\ \A n, m \in Visited :
          (n # m /\ IssuesOf(n) # {} /\ IssuesOf(m) # {}) => FromOf(n) # FromOf(m)
    /\ Len(issues) <= Cardinality({i \in 1..Len(toks) : IsKeyword(i, kwFrom)})

(***************************************************************************)
(* Inputs for FROM clauses with several sources: SELECTs that read an      *)
(* alias first and a base table after JOIN or a comma, with and without a  *)
(* WHERE, assembled from at most MaxJoinParts pieces.                      *)
(***************************************************************************)
MaxJoinParts == 4

pAliasJoin == <<"s","e","l","e","c","t"," ","*"," ","f","r","o","m"," ","a"," ","j","o","i","n"," ","d",".","t"," ">>
pAliasComma == <<"s","e","l","e","c","t"," ","*"," ","f","r","o","m"," ","a"," ",","," ","\"","d","\"",".","\"","t","\""," ">>
pWhereOther == <<"w","h","e","r","e"," ","x"," ","="," ","1"," ">>

JoinVocabulary ==
    {pAliasJoin, pAliasComma, pSelBase, pWhereOther, pUnion}

InitJoin == InitWith(SeqsUpTo(JoinVocabulary, MaxJoinParts), {Nil})

SpecJoin == InitJoin /\ [][Next]_vars

\* the first source of the FROM clause of the n-th SELECT is a single bare
\* identifier
BareFirst(n) ==
    /\ FromOf(n) # 0
    /\ \E p \in FirstSource(n) : IsIdent(p) /\ ~NamesBaseTable(n, p)

\* a base-table name follows the first source in the same FROM clause at the
\* SELECT's depth, directly after JOIN or a comma
LaterBaseTable(n) ==
    \E p \in FirstSource(n) : \E q \in SourceOf(n) :
        /\ q > p + 1
        /\ NamesBaseTable(n, q)
        /\ IsKeyword(q - 1, <<"j","o","i","n">>) \/ IsSymbol(q - 1, ",")

\* C19: the classification of a SELECT depends only on the first source after
\* FROM: a SELECT whose first FROM source is a single bare identifier is not a
\* base-table SELECT and raises no issue, also when a base-table name follows
\* after JOIN or a comma in the same FROM clause, with or without a WHERE; and
\* a SELECT whose first source names a base table is one whatever follows it.
C19_FirstSourceDecides ==
    \A n \in Visited :
        /\ BareFirst(n) => (~ReadsBaseTable(n) /\ IssuesOf(n) = {})
        /\ (FromOf(n) # 0 /\ \E p \in FirstSource(n) : NamesBaseTable(n, p))
               => ReadsBaseTable(n)

\* an alias joined with a base table and no WHERE, then an alias followed by a
\* comma and a base table with a WHERE that has no time predicate: no issue
C19_Witness ==
    /\ Done
    /\ parts = <<pAliasJoin, pUnion, pAliasComma, pWhereOther>>
    /\ \A n \in {1, 2} : BareFirst(n) /\ LaterBaseTable(n)
    /\ WhereOf(1) = 0
    /\ WhereOf(2) # 0
    /\ ok
    /\ issues = <<>>

====
